---- MODULE Spec2Model ----
(***************************************************************************)
(* Model of lavaplayer's LavalinkClient (client.py) and of its control-    *)
(* channel handler WS (websocket.py).                                       *)
(*                                                                          *)
(* All coroutines run on one asyncio event loop, so the code between two    *)
(* suspension points is one atomic step.  The suspension points are the     *)
(* network calls: WS.send (after the frame has been handed to the           *)
(* transport), the /decodetrack lookup in WS.callback, and the reading of   *)
(* the next inbound message.  `await get_guild_node / set_guild_node /      *)
(* remove_guild_node / create_new_node` never suspend.                      *)
(***************************************************************************)
EXTENDS Integers, Sequences, FiniteSets, TLC

\* ---------------------------------------------------------------- bounds
MaxQueue == 2        \* longest queue a session may hold in the model
MaxInbox == 2        \* inbound frames the node has sent and the client not yet read
MaxScheduled == 2    \* play tasks created by add_to_queue and not yet run
MaxShuffle == 3      \* longest queue of the shuffle specification
MaxBinding == 2      \* voice_update calls of one guild suspended in WS.send at a time
MaxWaiting == 2      \* waits of one kind and guild asleep at a time
MaxCoroutines == 2   \* coroutines of the application on the ready queue at a time

\* ---------------------------------------------------------------- inputs
Guilds == {1}                        \* the guild ids the commands are called with
OtherGuild == 2                      \* a guild id only the registry accessors are called with
Keys == Guilds \cup {OtherGuild}
Tracks == {"a", "b"}                 \* encoded track handles (Track.track)
NoRequester == 0
Requesters == {7}                    \* requester: Optional[int]
NoChannel == 0                       \* channel_id None
SomeChannel == 5
Channels == {NoChannel, SomeChannel}
SelfUser == 1                        \* LavalinkClient.user_id
Users == {SelfUser, 2}
VolumeInputs == {-1, 0, 1000, 1001}
NoTrack == ""                        \* a frame without a "track" field

\* ---------------------------------------------------------------- program constants
DefaultVolume == 100
VolumeMin == 0
VolumeMax == 1000

VARIABLES
    client,          \* how LavalinkClient.__init__ ended: "ok" when there is a client
    nodes,           \* LavalinkClient._nodes: guild id -> Node, a dict
    voice_handlers,  \* LavalinkClient._voice_handlers: guild id -> ConnectionInfo
    wsUp,            \* WS.ws is an open websocket (send_json succeeds)
    rx,              \* the receive loop: where WS._connect / WS.callback stands
    inbox,           \* frames the remote node has sent, in order, not yet read
    playing,         \* the remote node: guild id -> handle of the track it plays
    binding,         \* guild id -> number of voice_update calls suspended in WS.send
    scheduled,       \* tasks created by add_to_queue, in creation order
    info,            \* LavalinkClient.info
    listeners,       \* the event names Emitter.listeners holds a listener for
    waiting,         \* wait (kind and guild) -> number of such calls asleep
                     \* between two looks at the registry
    batch,           \* the event loop's ready queue (which entries are
                     \* coroutines and which are tasks of `scheduled`), and
                     \* history: the add_to_queue calls whose tasks have not
                     \* started, and the call whose tasks run or ran last
    last,            \* the call made by the last step and how it ended
    sent,            \* the frames the last step handed to WS.send, in order
    emitted          \* the events the last step published, in order

vars == <<client, nodes, voice_handlers, wsUp, rx, inbox, playing, binding, scheduled,
          info, listeners, waiting, batch, last, sent, emitted>>

\* ---------------------------------------------------------------- data
\* The identities of the Node objects the registry refers to: as many as it
\* has keys.
NodeObjects == 1..Cardinality(Keys)

\* Node(guild_id, [], 100, is_connected=...): a fresh session record.  The
\* registry holds references: `obj` is the identity of the Node object, and
\* two keys with the same `obj` refer to one object.
Node(obj, guild_id, is_connected) ==
    [obj |-> obj, guild_id |-> guild_id, queue |-> <<>>, volume |-> DefaultVolume,
     repeat |-> FALSE, is_connected |-> is_connected]

\* A Track object as a caller passes it: `id` tells one object from
\* another, `track` is the encoded handle (Track.track).
TrackObject(id, handle) == [id |-> id, track |-> handle]

\* The Track object the application holds for a handle, named after it.
Obj(handle) == TrackObject(handle, handle)

\* A second Track object with the handle "a" (the same track, found by
\* another search).
OtherObj == TrackObject("a2", "a")

\* The Track object _decodetrack builds for the handle of an inbound frame:
\* a new object, held by no queue.
Decoded(handle) == TrackObject("decoded", handle)

\* A place of a queue: the Track object it refers to, with the requester
\* the object carries.
Track(id, handle, requester) == [id |-> id, track |-> handle, requester |-> requester]

\* The Track objects a queue refers to, in order.
Objects(q) == [i \in 1..Len(q) |-> TrackObject(q[i].id, q[i].track)]

\* An outbound frame.  `track` is the handle of a play frame, `val` the
\* number of a volume / seek frame or the flag of a pause frame.
Frame(op, g, handle, val) == [op |-> op, guildId |-> g, track |-> handle, val |-> val]

\* An inbound frame of the remote node.  Fields WS.callback only copies into
\* the event it publishes (reason, code, thresholdMs, ...) are left out.
InFrame(op, type, g, handle) ==
    [op |-> op, type |-> type, guildId |-> g, track |-> handle]
NoFrame == InFrame("", "", 0, NoTrack)

\* A published event.
Event(kind, g, handle) == [event |-> kind, guild_id |-> g, track |-> handle]

\* What `last` records.
Call(op, g, outcome, handle, val) ==
    [op |-> op, guild |-> g, outcome |-> outcome, track |-> handle, val |-> val]

\* ---------------------------------------------------------------- registry
\* get_guild_node: self._nodes.get(guild_id); None when the key is missing.
HasNode(ns, g) == g \in DOMAIN ns

\* self._voice_handlers[guild_id] = value: a dict store.
dict_set(d, k, value) ==
    [h \in (DOMAIN d) \cup {k} |-> IF h = k THEN value ELSE d[h]]

\* set_guild_node: self._nodes[guild_id] = node.  The commands change the
\* Node object they looked up in place (node.queue.append, node.volume = ...)
\* and store that same object: every key that refers to the object shows
\* what the object has become.
set_guild_node(ns, g, node) ==
    [h \in (DOMAIN ns) \cup {g} |->
        IF h = g THEN node
        ELSE IF ns[h].obj = node.obj THEN node ELSE ns[h]]

\* The identity of a Node object made now, to be stored under key g: one
\* that no other key refers to.
NewObject(ns, g) ==
    CHOOSE i \in NodeObjects :
        /\ \A h \in DOMAIN ns \ {g} : ns[h].obj # i
        /\ \A j \in 1..(i - 1) : \E h \in DOMAIN ns \ {g} : ns[h].obj = j

\* create_new_node that keeps an entry the key already holds.
create_new_node_keep(ns, g, is_connected) ==
    IF HasNode(ns, g) THEN ns
    ELSE set_guild_node(ns, g, Node(NewObject(ns, g), g, is_connected))

\* create_new_node: a fresh Node replaces whatever the key held.
create_new_node(ns, g, is_connected) ==
    set_guild_node(ns, g, Node(NewObject(ns, g), g, is_connected))

EmptyDict == [h \in {} |-> 0]

\* ---------------------------------------------------------------- outbound
\* What a command hands back: the registry it leaves, the frames it handed
\* to WS.send, and how it ended ("ok", or the exception it raised).
Result(ns, frames, outcome) == [nodes |-> ns, sent |-> frames, outcome |-> outcome]

\* WS.send: self.ws.send_json(pyload).  With no open websocket (ws is None
\* before _connect, or the transport is closed) the call raises and no frame
\* leaves; what the caller changed before the call stays changed.
ws_send(ns, up, frame) ==
    IF up THEN Result(ns, <<frame>>, "ok") ELSE Result(ns, <<>>, "SendError")

\* remove_guild_node: node = self._nodes.get(guild_id), then
\* self._nodes.pop(node.guild_id).  With no entry under the key it reads
\* None.guild_id, an AttributeError; the key popped is the guild id the Node
\* carries, which set_guild_node lets differ from the key it is kept under,
\* and popping a key the registry does not hold is a KeyError.
remove_guild_node(ns, g) ==
    IF ~HasNode(ns, g) THEN Result(ns, <<>>, "AttributeError")
    ELSE IF ~HasNode(ns, ns[g].guild_id) THEN Result(ns, <<>>, "KeyError")
    ELSE Result([h \in (DOMAIN ns) \ {ns[g].guild_id} |-> ns[h]], <<>>, "ok")

\* ---------------------------------------------------------------- commands
\* track.requester = requester.  The queues hold references: every place of
\* every queue that refers to the object shows the new requester.
set_requester(ns, id, requester) ==
    [h \in DOMAIN ns |->
        [ns[h] EXCEPT !.queue =
            [i \in 1..Len(ns[h].queue) |->
                IF ns[h].queue[i].id = id
                THEN [ns[h].queue[i] EXCEPT !.requester = requester]
                ELSE ns[h].queue[i]]]]

\* play without the `if len(node.queue) != 1: return` gate.
play_ungated(ns, up, g, track, requester, start) ==
    IF ~HasNode(ns, g) THEN Result(ns, <<>>, "NodeError")
    ELSE LET payload == Frame("play", g, track.track, 0)
         IN  IF start THEN ws_send(ns, up, payload)
             ELSE LET ns1 == set_requester(ns, track.id, requester)
                      node == [ns1[g] EXCEPT
                                  !.queue = Append(@, Track(track.id, track.track, requester))]
                  IN  ws_send(set_guild_node(ns1, g, node), up, payload)

\* LavalinkClient.play.  `track` is the Track object passed.
play(ns, up, g, track, requester, start) ==
    IF ~HasNode(ns, g) THEN Result(ns, <<>>, "NodeError")
    ELSE LET payload == Frame("play", g, track.track, 0)
         IN  IF start THEN ws_send(ns, up, payload)
             ELSE LET ns1 == set_requester(ns, track.id, requester)
                      node == [ns1[g] EXCEPT
                                  !.queue = Append(@, Track(track.id, track.track, requester))]
                      ns2 == set_guild_node(ns1, g, node)
                  IN  IF Len(node.queue) # 1 THEN Result(ns2, <<>>, "ok")
                      ELSE ws_send(ns2, up, payload)

\* LavalinkClient.filters.
filters(ns, up, g) ==
    IF ~HasNode(ns, g) THEN Result(ns, <<>>, "NodeError")
    ELSE ws_send(ns, up, Frame("filters", g, NoTrack, 0))

\* stop with the frame sent before the queue is cleared.
stop_send_first(ns, up, g) ==
    IF ~HasNode(ns, g) THEN Result(ns, <<>>, "AttributeError")
    ELSE IF Len(ns[g].queue) = 0 THEN Result(ns, <<>>, "NodeError")
    ELSE LET r == ws_send(ns, up, Frame("stop", g, NoTrack, 0))
         IN  IF r.outcome # "ok" THEN r
             ELSE Result(set_guild_node(ns, g, [ns[g] EXCEPT !.queue = <<>>]), r.sent, "ok")

\* LavalinkClient.stop.  `len(node.queue)` is evaluated before any test of
\* node: with no session it is len(None.queue), an AttributeError.
stop(ns, up, g) ==
    IF ~HasNode(ns, g) THEN Result(ns, <<>>, "AttributeError")
    ELSE IF Len(ns[g].queue) = 0 THEN Result(ns, <<>>, "NodeError")
    ELSE LET node == [ns[g] EXCEPT !.queue = <<>>]
         IN  ws_send(set_guild_node(ns, g, node), up, Frame("stop", g, NoTrack, 0))

\* skip that takes the head off the queue itself before it sends the frame.
skip_dequeues(ns, up, g) ==
    IF ~HasNode(ns, g) THEN Result(ns, <<>>, "NodeError")
    ELSE IF Len(ns[g].queue) = 0 THEN Result(ns, <<>>, "ok")
    ELSE LET node == [ns[g] EXCEPT !.queue = Tail(@)]
         IN  ws_send(set_guild_node(ns, g, node), up, Frame("stop", g, NoTrack, 0))

\* LavalinkClient.skip.
skip(ns, up, g) ==
    IF ~HasNode(ns, g) THEN Result(ns, <<>>, "NodeError")
    ELSE IF Len(ns[g].queue) = 0 THEN Result(ns, <<>>, "ok")
    ELSE ws_send(ns, up, Frame("stop", g, NoTrack, 0))

\* LavalinkClient.pause.
pause(ns, up, g, stats) ==
    IF ~HasNode(ns, g) THEN Result(ns, <<>>, "NodeError")
    ELSE ws_send(ns, up, Frame("pause", g, NoTrack, IF stats THEN 1 ELSE 0))

\* LavalinkClient.seek.
seek(ns, up, g, position) ==
    IF ~HasNode(ns, g) THEN Result(ns, <<>>, "NodeError")
    ELSE ws_send(ns, up, Frame("seek", g, NoTrack, position))

\* volume with the session lookup ahead of the range check.
volume_lookup_first(ns, up, g, v) ==
    IF ~HasNode(ns, g) THEN Result(ns, <<>>, "NodeError")
    ELSE IF v < VolumeMin \/ v > VolumeMax THEN Result(ns, <<>>, "VolumeError")
    ELSE LET node == [ns[g] EXCEPT !.volume = v]
         IN  ws_send(set_guild_node(ns, g, node), up, Frame("volume", g, NoTrack, v))

\* LavalinkClient.volume.
volume(ns, up, g, v) ==
    IF v < VolumeMin \/ v > VolumeMax THEN Result(ns, <<>>, "VolumeError")
    ELSE IF ~HasNode(ns, g) THEN Result(ns, <<>>, "NodeError")
    ELSE LET node == [ns[g] EXCEPT !.volume = v]
         IN  ws_send(set_guild_node(ns, g, node), up, Frame("volume", g, NoTrack, v))

\* LavalinkClient.repeat.  `node.repeat = stats` is executed with no test of
\* node: with no session it assigns to None, an AttributeError.
repeat(ns, up, g, stats) ==
    IF ~HasNode(ns, g) THEN Result(ns, <<>>, "AttributeError")
    ELSE Result(set_guild_node(ns, g, [ns[g] EXCEPT !.repeat = stats]), <<>>, "ok")

\* destroy with the frame sent before the session is removed.
destroy_send_first(ns, up, g) ==
    IF ~HasNode(ns, g) THEN Result(ns, <<>>, "NodeError")
    ELSE LET r == ws_send(ns, up, Frame("destroy", g, NoTrack, 0))
         IN  IF r.outcome # "ok" THEN r
             ELSE Result(remove_guild_node(ns, g).nodes, r.sent, "ok")

\* LavalinkClient.destroy.  What remove_guild_node raises ends the call
\* before the send.
destroy(ns, up, g) ==
    IF ~HasNode(ns, g) THEN Result(ns, <<>>, "NodeError")
    ELSE LET r == remove_guild_node(ns, g)
         IN  IF r.outcome # "ok" THEN r
             ELSE ws_send(r.nodes, up, Frame("destroy", g, NoTrack, 0))

\* shuffle that puts the head back at the end: node.queue.append(np) in
\* place of node.queue.insert(0, np).
shuffle_head_last(ns, up, g, order) ==
    IF ~HasNode(ns, g) THEN Result(ns, <<>>, "NodeError")
    ELSE IF Len(ns[g].queue) = 0 THEN Result(ns, <<>>, "ok")
    ELSE LET np == ns[g].queue[1]
             rest == Tail(ns[g].queue)
             sample == [i \in 1..Len(rest) |-> rest[order[i]]]
             node == [ns[g] EXCEPT !.queue = sample \o <<np>>]
         IN  Result(set_guild_node(ns, g, node), <<>>, "ok")

\* LavalinkClient.shuffle.  random.sample(rest, len(rest)) is any ordering
\* of the tracks after the head; `order` is the one drawn, as a permutation
\* of the positions 1..Len(rest).
shuffle(ns, up, g, order) ==
    IF ~HasNode(ns, g) THEN Result(ns, <<>>, "NodeError")
    ELSE IF Len(ns[g].queue) = 0 THEN Result(ns, <<>>, "ok")
    ELSE LET np == ns[g].queue[1]
             rest == Tail(ns[g].queue)
             sample == [i \in 1..Len(rest) |-> rest[order[i]]]
             node == [ns[g] EXCEPT !.queue = <<np>> \o sample]
         IN  Result(set_guild_node(ns, g, node), <<>>, "ok")

\* The orderings random.sample can draw for a list of n elements.
Orders(n) == {f \in [1..n -> 1..n] : \A i, j \in 1..n : f[i] = f[j] => i = j}


\* LavalinkClient.voice_update.  With a channel id the frame is sent first
\* and the session entry is written after the send returns: the call ends
\* "suspended" here and VoiceUpdateResume is its second half.
voice_update(ns, up, g, channel_id) ==
    IF channel_id = NoChannel THEN destroy(ns, up, g)
    ELSE LET r == ws_send(ns, up, Frame("voiceUpdate", g, NoTrack, 0))
         IN  IF r.outcome = "ok" THEN [r EXCEPT !.outcome = "suspended"] ELSE r

\* add_to_queue without `if not node: raise NodeError`.
add_to_queue_unchecked(ns, g, tracks, requester) ==
    [i \in 1..Len(tracks) |->
        [guild |-> g, track |-> tracks[i], requester |-> requester]]

\* LavalinkClient.add_to_queue: the tasks it creates, in order.
add_to_queue(ns, g, tracks, requester) ==
    IF ~HasNode(ns, g) THEN <<>>
    ELSE [i \in 1..Len(tracks) |->
             [guild |-> g, track |-> tracks[i], requester |-> requester]]

\* wait_for_connection that looks once and returns what it finds:
\* `if not node: await asyncio.sleep(0.1)` in place of the while loop.
wait_for_connection_once(ns, g, first) ==
    IF HasNode(ns, g) \/ ~first THEN "ok" ELSE "sleep"

\* LavalinkClient.wait_for_connection, one look at the registry: the loop
\* test `while not (await self.get_guild_node(guild_id))` and, when it
\* fails, the return that follows it with no suspension between.  `first`
\* tells the look at the call from those after a sleep.
wait_for_connection(ns, g, first) ==
    IF HasNode(ns, g) THEN "ok" ELSE "sleep"

\* LavalinkClient.wait_for_remove_connection, one look at the registry: at
\* the call `if not node: raise NodeError`, then the loop test.
wait_for_remove_connection(ns, g, first) ==
    IF ~HasNode(ns, g) THEN (IF first THEN "NodeError" ELSE "ok") ELSE "sleep"

\* A wait asleep in asyncio.sleep(0.1).
Wait(kind, g) == [kind |-> kind, guild |-> g]
WaitKinds == {"wait_for_connection", "wait_for_remove_connection"}
Waits == {Wait(kind, g) : kind \in WaitKinds, g \in Guilds}

\* What a wait of the kind finds at one look.
Look(kind, ns, g, first) ==
    IF kind = "wait_for_connection" THEN wait_for_connection(ns, g, first)
    ELSE wait_for_remove_connection(ns, g, first)

\* ---------------------------------------------------------------- inbound
\* callback_event with the forced play issued for queue[0] before the
\* `del node.queue[0]` instead of after it.
callback_event_stale(ns, up, f) ==
    LET g == f.guildId
        ev == <<Event(f.type, g, f.track)>>
        quiet(es) == [nodes |-> ns, sent |-> <<>>, outcome |-> "ok", emitted |-> es]
        with(r, es) == [nodes |-> r.nodes, sent |-> r.sent, outcome |-> r.outcome,
                        emitted |-> es]
    IN  IF f.type = "TrackEndEvent" THEN
            IF ~HasNode(ns, g) THEN quiet(ev)
            ELSE IF Len(ns[g].queue) = 0 THEN quiet(ev)
            ELSE IF ns[g].repeat
                 THEN with(play(ns, up, g, Decoded(f.track), ns[g].queue[1].requester, TRUE), ev)
            ELSE LET node == [ns[g] EXCEPT !.queue = Tail(@)]
                     ns2 == set_guild_node(ns, g, node)
                 IN  IF Len(node.queue) # 0
                     THEN with(play(ns2, up, g, ns[g].queue[1],
                                    ns[g].queue[1].requester, TRUE), ev)
                     ELSE with(Result(ns2, <<>>, "ok"), ev)
        ELSE IF f.type \in {"TrackStartEvent", "TrackExceptionEvent",
                            "TrackStuckEvent", "WebSocketClosedEvent"}
             THEN quiet(ev)
        ELSE quiet(<<>>)

\* callback_event that takes a TrackStuckEvent for the end of the track:
\* the head is taken off the queue and the next track is started.
callback_event_stuck_skips(ns, up, f) ==
    LET g == f.guildId
        ev == <<Event(f.type, g, f.track)>>
        quiet(es) == [nodes |-> ns, sent |-> <<>>, outcome |-> "ok", emitted |-> es]
        with(r, es) == [nodes |-> r.nodes, sent |-> r.sent, outcome |-> r.outcome,
                        emitted |-> es]
    IN  IF f.type \in {"TrackEndEvent", "TrackStuckEvent"} THEN
            IF ~HasNode(ns, g) THEN quiet(ev)
            ELSE IF Len(ns[g].queue) = 0 THEN quiet(ev)
            ELSE IF ns[g].repeat
                 THEN with(play(ns, up, g, Decoded(f.track), ns[g].queue[1].requester, TRUE), ev)
            ELSE LET node == [ns[g] EXCEPT !.queue = Tail(@)]
                     ns2 == set_guild_node(ns, g, node)
                 IN  IF Len(node.queue) # 0
                     THEN with(play(ns2, up, g, node.queue[1],
                                    node.queue[1].requester, TRUE), ev)
                     ELSE with(Result(ns2, <<>>, "ok"), ev)
        ELSE IF f.type \in {"TrackStartEvent", "TrackExceptionEvent",
                            "WebSocketClosedEvent"}
             THEN quiet(ev)
        ELSE quiet(<<>>)

\* WS.callback after `track = await self.client._decodetrack(...)`, for a
\* frame with op "event" and a track: the registry it leaves, the frames it
\* sends and the events it publishes.
callback_event(ns, up, f) ==
    LET g == f.guildId
        ev == <<Event(f.type, g, f.track)>>
        quiet(es) == [nodes |-> ns, sent |-> <<>>, outcome |-> "ok", emitted |-> es]
        with(r, es) == [nodes |-> r.nodes, sent |-> r.sent, outcome |-> r.outcome,
                        emitted |-> es]
    IN  IF f.type = "TrackEndEvent" THEN
            IF ~HasNode(ns, g) THEN quiet(ev)
            ELSE IF Len(ns[g].queue) = 0 THEN quiet(ev)
            ELSE IF ns[g].repeat
                 THEN with(play(ns, up, g, Decoded(f.track), ns[g].queue[1].requester, TRUE), ev)
            ELSE LET node == [ns[g] EXCEPT !.queue = Tail(@)]
                     ns2 == set_guild_node(ns, g, node)
                 IN  IF Len(node.queue) # 0
                     THEN with(play(ns2, up, g, node.queue[1],
                                    node.queue[1].requester, TRUE), ev)
                     ELSE with(Result(ns2, <<>>, "ok"), ev)
        ELSE IF f.type \in {"TrackStartEvent", "TrackExceptionEvent",
                            "TrackStuckEvent", "WebSocketClosedEvent"}
             THEN quiet(ev)
        ELSE quiet(<<>>)

\* ---------------------------------------------------------------- remote node
\* The events the remote node answers a frame with: the track it was
\* playing ends when a stop frame (reason STOPPED) or another play frame
\* (reason REPLACED) arrives.
RemoteEvents(pl, frames) ==
    IF frames = <<>> THEN <<>>
    ELSE LET f == frames[1]
         IN  IF f.op \in {"play", "stop"} /\ pl[f.guildId] # NoTrack
             THEN <<InFrame("event", "TrackEndEvent", f.guildId, pl[f.guildId])>>
             ELSE <<>>

\* What the remote node plays after a frame.
RemotePlaying(pl, frames) ==
    IF frames = <<>> THEN pl
    ELSE LET f == frames[1]
         IN  IF f.op = "play" THEN [pl EXCEPT ![f.guildId] = f.track]
             ELSE IF f.op \in {"stop", "destroy"} THEN [pl EXCEPT ![f.guildId] = NoTrack]
             ELSE pl

\* The frames of a step reach the remote node, which answers at once; its
\* answers wait in `inbox` until the receive loop reads them.
Transmit(frames) ==
    /\ Len(inbox \o RemoteEvents(playing, frames)) <= MaxInbox
    /\ sent' = frames
    /\ playing' = RemotePlaying(playing, frames)
    /\ inbox' = inbox \o RemoteEvents(playing, frames)

\* A call that runs to its end, or to its suspension, in one step.
Finish(op, g, handle, val, r) ==
    /\ nodes' = r.nodes
    /\ last' = Call(op, g, r.outcome, handle, val)
    /\ Transmit(r.sent)
    /\ emitted' = IF "emitted" \in DOMAIN r THEN r.emitted ELSE <<>>

\* Queue places of guild g in use or promised to a task not yet run.
Room(g) ==
    (IF HasNode(nodes, g) THEN Len(nodes[g].queue) ELSE 0)
    + Cardinality({i \in 1..Len(scheduled) : scheduled[i].guild = g})

\* What `batch` records of an add_to_queue call: its arguments, the queue
\* the call found, the queue the first of its tasks found, the frames its
\* tasks have sent so far and how many of its tasks are still to run.
Batch(g, found, tracks, requester) ==
    [guild |-> g, found |-> found, before |-> <<>>, tracks |-> tracks,
     requester |-> requester, frames |-> <<>>, left |-> Len(tracks)]
NoBatch == [ready |-> <<>>, calls |-> <<>>, cur |-> Batch(0, <<>>, <<>>, NoRequester)]

\* LavalinkClient.__init__ sets self.event_manager and then builds the WS,
\* whose __init__ reads client.event_manger.  No line of the class sets an
\* attribute of that name: the read raises AttributeError and there is no
\* client, unless the class the application instantiates supplies
\* `event_manger` itself (`supplied`: a subclass of LavalinkClient with such
\* an attribute or property).
construct(supplied) == IF supplied THEN "ok" ELSE "AttributeError"

\* There is a client: every step of the model is a step of one.
Constructed == client = "ok"

\* The state after LavalinkClient(...): no client when the constructor
\* raised; else empty registries, no websocket yet (WS.ws is None until
\* _connect), nothing received.
Init ==
    /\ \E supplied \in BOOLEAN : client = construct(supplied)
    /\ nodes = EmptyDict
    /\ voice_handlers = EmptyDict
    /\ wsUp = FALSE
    /\ rx = [pc |-> "idle", frame |-> NoFrame]
    /\ inbox = <<>>
    /\ playing = [g \in Guilds |-> NoTrack]
    /\ binding = [g \in Guilds |-> 0]
    /\ scheduled = <<>>
    /\ info = 0
    /\ listeners = {}
    /\ waiting = [w \in Waits |-> 0]
    /\ batch = NoBatch
    /\ last = Call("init", 0, client, NoTrack, 0)
    /\ sent = <<>>
    /\ emitted = <<>>

\* ---------------------------------------------------------------- connection
\* LavalinkClient.connect / WS._connect: the websocket is opened.
Connect ==
    /\ ~wsUp
    /\ wsUp' = TRUE
    /\ last' = Call("connect", 0, "ok", NoTrack, 0)
    /\ sent' = <<>> /\ emitted' = <<>>
    /\ Constructed /\ UNCHANGED <<client, waiting, listeners, batch, nodes, voice_handlers, rx, inbox, playing, binding, scheduled, info>>

\* WS._connect reads a CLOSED or ERROR message: the loop ends.  The remote
\* node drops the players of the connection and what it had sent is lost.
Close ==
    /\ wsUp /\ rx.pc = "idle"
    /\ wsUp' = FALSE
    /\ inbox' = <<>>
    /\ playing' = [g \in Guilds |-> NoTrack]
    /\ last' = Call("close", 0, "ok", NoTrack, 0)
    /\ sent' = <<>> /\ emitted' = <<>>
    /\ Constructed /\ UNCHANGED <<client, waiting, listeners, batch, nodes, voice_handlers, rx, binding, scheduled, info>>

\* ---------------------------------------------------------------- command steps
VoiceUpdateStep(op, g, channel_id) ==
    LET r == voice_update(nodes, wsUp, g, channel_id)
    IN  /\ r.outcome = "suspended" => binding[g] < MaxBinding
        /\ Finish(op, g, NoTrack, channel_id, r)
        /\ binding' = IF r.outcome = "suspended"
                      THEN [binding EXCEPT ![g] = @ + 1] ELSE binding
        /\ Constructed /\ UNCHANGED <<client, waiting, listeners, batch, wsUp, rx, scheduled, info>>

VoiceUpdate(g, channel_id) ==
    /\ VoiceUpdateStep("voice_update", g, channel_id)
    /\ UNCHANGED voice_handlers

\* The send of one of the voice_update calls suspended for g returns, and
\* the call goes on: create_new_node.
VoiceUpdateResume(g) ==
    /\ binding[g] > 0
    /\ binding' = [binding EXCEPT ![g] = @ - 1]
    /\ nodes' = create_new_node(nodes, g, TRUE)
    /\ last' = Call("voice_update", g, "ok", NoTrack, SomeChannel)
    /\ sent' = <<>> /\ emitted' = <<>>
    /\ Constructed /\ UNCHANGED <<client, waiting, listeners, batch, voice_handlers, wsUp, rx, inbox, playing, scheduled, info>>

\* LavalinkClient.play called with the Track object `track`.
PlayObject(g, track, requester, start) ==
    /\ start \/ Room(g) < MaxQueue
    /\ Finish("play", g, track.track, IF start THEN 1 ELSE 0,
              play(nodes, wsUp, g, track, requester, start))
    /\ Constructed /\ UNCHANGED <<client, waiting, listeners, batch, voice_handlers, wsUp, rx, binding, scheduled, info>>

\* LavalinkClient.play called with the Track object of the handle.
Play(g, handle, requester, start) == PlayObject(g, Obj(handle), requester, start)

\* LavalinkClient.add_to_queue, but for what `batch` records.
AddToQueueStep(g, tracks, requester) ==
    /\ Room(g) + Len(tracks) <= MaxQueue
    /\ Len(scheduled) + Len(tracks) <= MaxScheduled
    /\ scheduled' = scheduled \o add_to_queue(nodes, g, tracks, requester)
    /\ last' = Call("add_to_queue", g,
                    IF HasNode(nodes, g) THEN "ok" ELSE "NodeError", NoTrack, Len(tracks))
    /\ sent' = <<>> /\ emitted' = <<>>
    /\ Constructed /\ UNCHANGED <<client, waiting, listeners, nodes, voice_handlers, wsUp, rx, inbox, playing, binding, info>>

AddToQueue(g, tracks, requester) ==
    AddToQueueStep(g, tracks, requester) /\ UNCHANGED batch

\* The event loop runs the oldest task add_to_queue created; what the task
\* raises is not raised to any caller.
RunScheduledStep ==
    /\ scheduled # <<>>
    /\ LET t == Head(scheduled)
       IN  Finish("play_task", t.guild, t.track.track, 0,
                  play(nodes, wsUp, t.guild, t.track, t.requester, FALSE))
    /\ scheduled' = Tail(scheduled)
    /\ Constructed /\ UNCHANGED <<client, waiting, listeners, voice_handlers, wsUp, rx, binding, info>>

RunScheduled == RunScheduledStep /\ UNCHANGED batch

Filters(g) ==
    /\ Finish("filters", g, NoTrack, 0, filters(nodes, wsUp, g))
    /\ Constructed /\ UNCHANGED <<client, waiting, listeners, batch, voice_handlers, wsUp, rx, binding, scheduled, info>>

Stop(g) ==
    /\ Finish("stop", g, NoTrack, 0, stop(nodes, wsUp, g))
    /\ Constructed /\ UNCHANGED <<client, waiting, listeners, batch, voice_handlers, wsUp, rx, binding, scheduled, info>>

Skip(g) ==
    /\ Finish("skip", g, NoTrack, 0, skip(nodes, wsUp, g))
    /\ Constructed /\ UNCHANGED <<client, waiting, listeners, batch, voice_handlers, wsUp, rx, binding, scheduled, info>>

Pause(g, stats) ==
    /\ Finish("pause", g, NoTrack, IF stats THEN 1 ELSE 0, pause(nodes, wsUp, g, stats))
    /\ Constructed /\ UNCHANGED <<client, waiting, listeners, batch, voice_handlers, wsUp, rx, binding, scheduled, info>>

Seek(g, position) ==
    /\ Finish("seek", g, NoTrack, position, seek(nodes, wsUp, g, position))
    /\ Constructed /\ UNCHANGED <<client, waiting, listeners, batch, voice_handlers, wsUp, rx, binding, scheduled, info>>

Volume(g, v) ==
    /\ Finish("volume", g, NoTrack, v, volume(nodes, wsUp, g, v))
    /\ Constructed /\ UNCHANGED <<client, waiting, listeners, batch, voice_handlers, wsUp, rx, binding, scheduled, info>>

Repeat(g, stats) ==
    /\ Finish("repeat", g, NoTrack, IF stats THEN 1 ELSE 0, repeat(nodes, wsUp, g, stats))
    /\ Constructed /\ UNCHANGED <<client, waiting, listeners, batch, voice_handlers, wsUp, rx, binding, scheduled, info>>

Destroy(g) ==
    /\ Finish("destroy", g, NoTrack, 0, destroy(nodes, wsUp, g))
    /\ Constructed /\ UNCHANGED <<client, waiting, listeners, batch, voice_handlers, wsUp, rx, binding, scheduled, info>>

Shuffle(g) ==
    /\ \E order \in Orders(IF HasNode(nodes, g) /\ Len(nodes[g].queue) > 0
                           THEN Len(nodes[g].queue) - 1 ELSE 0) :
          Finish("shuffle", g, NoTrack, 0, shuffle(nodes, wsUp, g, order))
    /\ Constructed /\ UNCHANGED <<client, waiting, listeners, batch, voice_handlers, wsUp, rx, binding, scheduled, info>>

\* What `last` records of a raw_voice_state_update: the call and the user
\* id it was made with.
StateUpdateCall(g, outcome, user_id, channel_id) ==
    [op |-> "raw_voice_state_update", guild |-> g, outcome |-> outcome,
     track |-> NoTrack, val |-> channel_id, user |-> user_id]

\* raw_voice_state_update without `if user_id != self.user_id: return`.
RawVoiceStateUpdateAnyUser(g, user_id, channel_id) ==
    IF channel_id = NoChannel THEN
        LET r == destroy(nodes, wsUp, g)
        IN  /\ nodes' = r.nodes
            /\ Transmit(r.sent)
            /\ emitted' = <<>>
            /\ last' = StateUpdateCall(g, r.outcome, user_id, channel_id)
            /\ Constructed /\ UNCHANGED <<client, waiting, listeners, batch, voice_handlers, wsUp, rx, binding, scheduled, info>>
    ELSE
        /\ voice_handlers' = dict_set(voice_handlers, g, channel_id)
        /\ last' = StateUpdateCall(g, "ok", user_id, channel_id)
        /\ sent' = <<>> /\ emitted' = <<>>
        /\ Constructed /\ UNCHANGED <<client, waiting, listeners, batch, nodes, wsUp, rx, inbox, playing, binding, scheduled, info>>

\* LavalinkClient.raw_voice_state_update.  Of the ConnectionInfo the model
\* keeps the channel id.
RawVoiceStateUpdate(g, user_id, channel_id) ==
    IF user_id # SelfUser THEN
        /\ last' = StateUpdateCall(g, "ok", user_id, channel_id)
        /\ sent' = <<>> /\ emitted' = <<>>
        /\ Constructed /\ UNCHANGED <<client, waiting, listeners, batch, nodes, voice_handlers, wsUp, rx, inbox, playing, binding,
                       scheduled, info>>
    ELSE IF channel_id = NoChannel THEN
        LET r == destroy(nodes, wsUp, g)
        IN  /\ nodes' = r.nodes
            /\ Transmit(r.sent)
            /\ emitted' = <<>>
            /\ last' = StateUpdateCall(g, r.outcome, user_id, channel_id)
            /\ Constructed /\ UNCHANGED <<client, waiting, listeners, batch, voice_handlers, wsUp, rx, binding, scheduled, info>>
    ELSE
        /\ voice_handlers' = dict_set(voice_handlers, g, channel_id)
        /\ last' = StateUpdateCall(g, "ok", user_id, channel_id)
        /\ sent' = <<>> /\ emitted' = <<>>
        /\ Constructed /\ UNCHANGED <<client, waiting, listeners, batch, nodes, wsUp, rx, inbox, playing, binding, scheduled, info>>

\* LavalinkClient.raw_voice_server_update.
RawVoiceServerUpdate(g) ==
    IF ~HasNode(voice_handlers, g) THEN
        /\ last' = Call("raw_voice_server_update", g, "ok", NoTrack, NoChannel)
        /\ sent' = <<>> /\ emitted' = <<>>
        /\ Constructed /\ UNCHANGED <<client, waiting, listeners, batch, nodes, voice_handlers, wsUp, rx, inbox, playing, binding,
                       scheduled, info>>
    ELSE
        /\ VoiceUpdateStep("raw_voice_server_update", g, voice_handlers[g])
        /\ UNCHANGED voice_handlers

\* ---------------------------------------------------------------- receive loop
\* A receive loop that reads the next message while WS.callback is still
\* suspended for the one before: create_task(self.callback(...)) in place of
\* `await self.callback(...)`.
RxReceiveEager ==
    /\ wsUp /\ inbox # <<>>
    /\ LET f == Head(inbox)
       IN  /\ inbox' = Tail(inbox)
           /\ info' = IF f.op = "stats" THEN 1 ELSE info
           /\ emitted' = IF f.op = "playerUpdate"
                         THEN <<Event("playerUpdate", f.guildId, NoTrack)>> ELSE <<>>
           /\ rx' = IF f.op = "event" /\ f.track # NoTrack
                    THEN [pc |-> "decode", frame |-> f] ELSE rx
           /\ last' = Call("receive", f.guildId, "ok", f.track, 0)
    /\ sent' = <<>>
    /\ Constructed /\ UNCHANGED <<client, waiting, listeners, batch, nodes, voice_handlers, wsUp, playing, binding, scheduled>>

\* WS._connect reads the next message and WS.callback runs up to its first
\* suspension: the whole of it for "stats", "playerUpdate", an event frame
\* without a track and an unknown op; up to the /decodetrack request else.
RxReceive ==
    /\ wsUp /\ rx.pc = "idle" /\ inbox # <<>>
    /\ LET f == Head(inbox)
       IN  /\ inbox' = Tail(inbox)
           /\ info' = IF f.op = "stats" THEN 1 ELSE info
           /\ emitted' = IF f.op = "playerUpdate"
                         THEN <<Event("playerUpdate", f.guildId, NoTrack)>> ELSE <<>>
           /\ rx' = IF f.op = "event" /\ f.track # NoTrack
                    THEN [pc |-> "decode", frame |-> f] ELSE rx
           /\ last' = Call("receive", f.guildId, "ok", f.track, 0)
    /\ sent' = <<>>
    /\ Constructed /\ UNCHANGED <<client, waiting, listeners, batch, nodes, voice_handlers, wsUp, playing, binding, scheduled>>

\* The /decodetrack answer arrives: WS.callback runs to its end, or to the
\* send of a forced play frame.
RxDecoded ==
    /\ rx.pc = "decode"
    /\ LET r == callback_event(nodes, wsUp, rx.frame)
       IN  /\ Finish(rx.frame.type, rx.frame.guildId, rx.frame.track, 0, r)
           /\ rx' = IF r.sent # <<>> THEN [pc |-> "sending", frame |-> NoFrame]
                    ELSE [pc |-> "idle", frame |-> NoFrame]
    /\ Constructed /\ UNCHANGED <<client, waiting, listeners, batch, voice_handlers, wsUp, binding, scheduled, info>>

\* The send of the forced play frame returns and with it WS.callback: the
\* loop goes on to read the next message.
RxReturn ==
    /\ rx.pc = "sending"
    /\ rx' = [pc |-> "idle", frame |-> NoFrame]
    /\ last' = Call("callback_return", 0, "ok", NoTrack, 0)
    /\ sent' = <<>> /\ emitted' = <<>>
    /\ Constructed /\ UNCHANGED <<client, waiting, listeners, batch, nodes, voice_handlers, wsUp, inbox, playing, binding, scheduled, info>>

\* ---------------------------------------------------------------- remote node steps
\* The track the remote node plays for g comes to its end.
NodeTrackFinished(g) ==
    /\ wsUp /\ playing[g] # NoTrack /\ Len(inbox) < MaxInbox
    /\ inbox' = Append(inbox, InFrame("event", "TrackEndEvent", g, playing[g]))
    /\ playing' = [playing EXCEPT ![g] = NoTrack]
    /\ last' = Call("node_track_finished", g, "ok", playing[g], 0)
    /\ sent' = <<>> /\ emitted' = <<>>
    /\ Constructed /\ UNCHANGED <<client, waiting, listeners, batch, nodes, voice_handlers, wsUp, rx, binding, scheduled, info>>

\* ---------------------------------------------------------------- specification
\* The lists of Track objects add_to_queue is called with.
TrackLists == {<<Obj(t)>> : t \in Tracks} \cup {<<Obj(t), Obj(u)>> : t, u \in Tracks}

\* The connection, the voice binding, the per-session commands, the
\* receive loop and the remote node.
Next ==
    \/ Connect
    \/ Close
    \/ \E g \in Guilds, c \in Channels : VoiceUpdate(g, c)
    \/ \E g \in Guilds : VoiceUpdateResume(g)
    \/ \E g \in Guilds, t \in Tracks, r \in Requesters, s \in BOOLEAN : Play(g, t, r, s)
    \/ \E g \in Guilds : Filters(g)
    \/ \E g \in Guilds : Stop(g)
    \/ \E g \in Guilds : Skip(g)
    \/ \E g \in Guilds, b \in BOOLEAN : Pause(g, b)
    \/ \E g \in Guilds : Seek(g, 0)
    \/ \E g \in Guilds, v \in VolumeInputs : Volume(g, v)
    \/ \E g \in Guilds, b \in BOOLEAN : Repeat(g, b)
    \/ \E g \in Guilds : Destroy(g)
    \/ \E g \in Guilds : Shuffle(g)
    \/ RxReceive
    \/ RxDecoded
    \/ RxReturn
    \/ \E g \in Guilds : NodeTrackFinished(g)

Spec == Init /\ [][Next]_vars

\* voice_update with a channel id for a session neither present nor being
\* bound.
VoiceUpdateFresh(g) ==
    ~HasNode(nodes, g) /\ binding[g] = 0 /\ VoiceUpdate(g, SomeChannel)

\* Playback alone: one binding per session, then play, stop, skip and
\* destroy against the receive loop and the remote node.  No forced play by
\* the caller, no repeat, no rebinding of a present session.
NextPlayback ==
    \/ Connect
    \/ \E g \in Guilds : VoiceUpdateFresh(g)
    \/ \E g \in Guilds : VoiceUpdateResume(g)
    \/ \E g \in Guilds, t \in Tracks, r \in Requesters : Play(g, t, r, FALSE)
    \/ \E g \in Guilds : Stop(g)
    \/ \E g \in Guilds : Skip(g)
    \/ \E g \in Guilds : Destroy(g)
    \/ RxReceive
    \/ RxDecoded
    \/ RxReturn
    \/ \E g \in Guilds : NodeTrackFinished(g)

SpecPlayback == Init /\ [][NextPlayback]_vars

\* play without start on a queue of up to MaxShuffle tracks.
PlayLong(g, handle, requester) ==
    /\ Room(g) < MaxShuffle
    /\ Finish("play", g, handle, 0, play(nodes, wsUp, g, Obj(handle), requester, FALSE))
    /\ Constructed /\ UNCHANGED <<client, waiting, listeners, batch, voice_handlers, wsUp, rx, binding, scheduled, info>>

\* Shuffling: a session is bound, tracks are enqueued, the queue is
\* shuffled with any repeat flag and volume, the session is destroyed.  The
\* receive loop does not run.
NextShuffle ==
    \/ Connect
    \/ \E g \in Guilds : VoiceUpdateFresh(g)
    \/ \E g \in Guilds : VoiceUpdateResume(g)
    \/ \E g \in Guilds, t \in Tracks, r \in Requesters : PlayLong(g, t, r)
    \/ \E g \in Guilds, b \in BOOLEAN : Repeat(g, b)
    \/ \E g \in Guilds, v \in VolumeInputs : Volume(g, v)
    \/ \E g \in Guilds : Shuffle(g)
    \/ \E g \in Guilds : Destroy(g)

SpecShuffle == Init /\ [][NextShuffle]_vars

\* The Nodes the application makes for set_guild_node(g, node): Node(g, ...)
\* with the queue empty or holding a track; volume, repeat and
\* is_connected are what create_new_node writes by default.
NodeInputs(g) ==
    {[obj |-> o, guild_id |-> g, queue |-> q, volume |-> DefaultVolume,
      repeat |-> FALSE, is_connected |-> FALSE] :
        o \in NodeObjects,
        q \in {<<>>, <<Track("b", "b", 7)>>}}

\* The Nodes set_guild_node(g, node) is called with: a Node object the
\* application has made for the guild, which no key refers to yet, or one
\* the registry holds already, as get_guild_node hands it out.
MadeNodes(g) == {node \in NodeInputs(g) : node.obj = NewObject(nodes, g)}
HeldNodes == {nodes[h] : h \in DOMAIN nodes}

\* LavalinkClient.create_new_node called by the application, with the
\* default is_connected=False or with True.
CreateNewNode(g, is_connected) ==
    /\ nodes' = create_new_node(nodes, g, is_connected)
    /\ last' = Call("create_new_node", g, "ok", NoTrack, IF is_connected THEN 1 ELSE 0)
    /\ sent' = <<>> /\ emitted' = <<>>
    /\ Constructed /\ UNCHANGED <<client, waiting, listeners, batch, voice_handlers, wsUp, rx, inbox, playing, binding, scheduled, info>>

\* LavalinkClient.set_guild_node called by the application, with a Node of
\* its own making or with one the registry holds.
SetGuildNode(g, node) ==
    /\ nodes' = set_guild_node(nodes, g, node)
    /\ last' = Call("set_guild_node", g, "ok", NoTrack, node.guild_id)
    /\ sent' = <<>> /\ emitted' = <<>>
    /\ Constructed /\ UNCHANGED <<client, waiting, listeners, batch, voice_handlers, wsUp, rx, inbox, playing, binding, scheduled, info>>

\* LavalinkClient.remove_guild_node called by the application.
RemoveGuildNode(g) ==
    /\ Finish("remove_guild_node", g, NoTrack, 0, remove_guild_node(nodes, g))
    /\ Constructed /\ UNCHANGED <<client, waiting, listeners, batch, voice_handlers, wsUp, rx, binding, scheduled, info>>

\* The methods that write a session entry, voice_update and
\* create_new_node, with the commands that send a frame for a session.  The
\* receive loop does not run.
NextCreate ==
    \/ Connect
    \/ \E g \in Guilds, b \in BOOLEAN : CreateNewNode(g, b)
    \/ \E g \in Guilds : VoiceUpdateFresh(g)
    \/ \E g \in Guilds : VoiceUpdateResume(g)
    \/ \E g \in Guilds, t \in Tracks, r \in Requesters, s \in BOOLEAN : Play(g, t, r, s)
    \/ \E g \in Guilds : Filters(g)
    \/ \E g \in Guilds, b \in BOOLEAN : Pause(g, b)
    \/ \E g \in Guilds : Seek(g, 0)
    \/ \E g \in Guilds, v \in VolumeInputs : Volume(g, v)
    \/ \E g \in Guilds : Destroy(g)

SpecCreate == Init /\ [][NextCreate]_vars

\* The registry written and read by the application itself:
\* create_new_node, set_guild_node and remove_guild_node called directly,
\* with play, volume and destroy.  The receive loop does not run.
NextAccessors ==
    \/ Connect
    \/ \E g \in Guilds, b \in BOOLEAN : CreateNewNode(g, b)
    \/ \E g \in Keys : \E node \in MadeNodes(g) \cup HeldNodes : SetGuildNode(g, node)
    \/ \E g \in Keys : RemoveGuildNode(g)
    \/ \E g \in Guilds, t \in Tracks, r \in Requesters : Play(g, t, r, FALSE)
    \/ \E g \in Guilds : Volume(g, VolumeMin)
    \/ \E g \in Guilds : Destroy(g)

SpecAccessors == Init /\ [][NextAccessors]_vars

\* The frames the remote node sends of its own accord, apart from the
\* TrackEndEvent of a track that ends: statistics, a frame with an op
\* WS.callback does not know, player updates, and the events about a track
\* or about the voice websocket of a guild.  Lavalink's
\* WebSocketClosedEvent has no "track" field; the track events have one.
NotifyTypes ==
    {"TrackStartEvent", "TrackExceptionEvent", "TrackStuckEvent", "WebSocketClosedEvent"}
NotifyFrames ==
    {InFrame("stats", "", 0, NoTrack), InFrame("unknown", "", 0, NoTrack)}
    \cup {InFrame("playerUpdate", "", g, NoTrack) : g \in Guilds}
    \cup {InFrame("event", ty, g, h) : ty \in NotifyTypes, g \in Guilds,
                                      h \in {NoTrack, "a"}}

\* The remote node sends one of these frames.
NodeNotify(f) ==
    /\ wsUp /\ Len(inbox) < MaxInbox
    /\ inbox' = Append(inbox, f)
    /\ last' = Call("node_notify", f.guildId, "ok", f.track, 0)
    /\ sent' = <<>> /\ emitted' = <<>>
    /\ Constructed /\ UNCHANGED <<client, waiting, listeners, batch, nodes, voice_handlers, wsUp, rx, playing, binding, scheduled, info>>

\* The receive loop against everything the remote node sends, with a
\* session that is bound, plays, repeats and is destroyed.
NextInbound ==
    \/ Connect
    \/ \E g \in Guilds : VoiceUpdateFresh(g)
    \/ \E g \in Guilds : VoiceUpdateResume(g)
    \/ \E g \in Guilds, t \in Tracks, r \in Requesters : Play(g, t, r, FALSE)
    \/ \E g \in Guilds : Destroy(g)
    \/ \E f \in NotifyFrames : NodeNotify(f)
    \/ \E g \in Guilds : NodeTrackFinished(g)
    \/ RxReceive
    \/ RxDecoded
    \/ RxReturn

SpecInbound == Init /\ [][NextInbound]_vars

\* LavalinkClient.listen(event) applied to a handler: Emitter.add_listener.
Listen(kind) ==
    /\ kind \notin listeners
    /\ listeners' = listeners \cup {kind}
    /\ last' = Call("listen", 0, "ok", NoTrack, 0)
    /\ sent' = <<>> /\ emitted' = <<>>
    /\ Constructed /\ UNCHANGED <<client, waiting, batch, nodes, voice_handlers, wsUp, rx, inbox, playing, binding, scheduled, info>>

\* The event names the application listens for in the model.
ListenKinds == {"ErrorEvent", "TrackEndEvent"}

\* The commands against a registry with and without the session, with and
\* without listeners.  The receive loop does not run.
NextErrors ==
    \/ Connect
    \/ \E kind \in ListenKinds : Listen(kind)
    \/ \E g \in Guilds : VoiceUpdateFresh(g)
    \/ \E g \in Guilds : VoiceUpdateResume(g)
    \/ \E g \in Guilds, t \in Tracks, r \in Requesters, s \in BOOLEAN : Play(g, t, r, s)
    \/ \E g \in Guilds : Filters(g)
    \/ \E g \in Guilds : Stop(g)
    \/ \E g \in Guilds : Skip(g)
    \/ \E g \in Guilds, b \in BOOLEAN : Pause(g, b)
    \/ \E g \in Guilds : Seek(g, 0)
    \/ \E g \in Guilds, v \in VolumeInputs : Volume(g, v)
    \/ \E g \in Guilds, b \in BOOLEAN : Repeat(g, b)
    \/ \E g \in Guilds : Destroy(g)
    \/ \E g \in Guilds : Shuffle(g)

SpecErrors == Init /\ [][NextErrors]_vars

\* The registry under interleaving: voice_update and destroy against the
\* commands that write a session back, the tasks of add_to_queue, the
\* receive loop and the remote node, and the application's own
\* create_new_node and set_guild_node calls.
NextRegistry ==
    \/ Connect
    \/ \E g \in Guilds, b \in BOOLEAN : CreateNewNode(g, b)
    \/ \E g \in Guilds : \E node \in MadeNodes(g) : SetGuildNode(g, node)
    \/ \E g \in Guilds : VoiceUpdateFresh(g)
    \/ \E g \in Guilds : VoiceUpdateResume(g)
    \/ \E g \in Guilds, t \in Tracks, r \in Requesters : Play(g, t, r, FALSE)
    \/ \E g \in Guilds, ts \in TrackLists, r \in Requesters : AddToQueue(g, ts, r)
    \/ RunScheduled
    \/ \E g \in Guilds : Stop(g)
    \/ \E g \in Guilds : Volume(g, VolumeMin)
    \/ \E g \in Guilds, b \in BOOLEAN : Repeat(g, b)
    \/ \E g \in Guilds : Shuffle(g)
    \/ \E g \in Guilds : Destroy(g)
    \/ RxReceive
    \/ RxDecoded
    \/ RxReturn
    \/ \E g \in Guilds : NodeTrackFinished(g)

SpecRegistry == Init /\ [][NextRegistry]_vars

\* The voice binding: the voice-state and voice-server updates of the
\* gateway and direct voice_update calls, with play and destroy.  The
\* receive loop does not run.
NextVoice ==
    \/ Connect
    \/ \E g \in Guilds, u \in Users, c \in Channels : RawVoiceStateUpdate(g, u, c)
    \/ \E g \in Guilds : RawVoiceServerUpdate(g)
    \/ \E g \in Guilds, c \in Channels : VoiceUpdate(g, c)
    \/ \E g \in Guilds : VoiceUpdateResume(g)
    \/ \E g \in Guilds, t \in Tracks, r \in Requesters : Play(g, t, r, FALSE)
    \/ \E g \in Guilds : Destroy(g)

SpecVoice == Init /\ [][NextVoice]_vars

\* The voice binding driven by the gateway alone: voice-state and
\* voice-server updates, with play and destroy; no direct voice_update call.
NextGateway ==
    \/ Connect
    \/ \E g \in Guilds, u \in Users, c \in Channels : RawVoiceStateUpdate(g, u, c)
    \/ \E g \in Guilds : RawVoiceServerUpdate(g)
    \/ \E g \in Guilds : VoiceUpdateResume(g)
    \/ \E g \in Guilds, t \in Tracks, r \in Requesters : Play(g, t, r, FALSE)
    \/ \E g \in Guilds : Destroy(g)

SpecGateway == Init /\ [][NextGateway]_vars

\* The event loop's ready queue (BaseEventLoop._ready behind self._loop):
\* what is ready runs first-in first-out, one entry at a time.  An entry is
\* a coroutine of the application that has been woken, or a task
\* add_to_queue created; the tasks among the entries are those of
\* `scheduled`, in the same order.  The coroutine at the head is the one
\* that is running: it stays there until it suspends.
Coroutines(ready) == Cardinality({i \in 1..Len(ready) : ready[i] = "coroutine"})
CoroutineRuns == batch.ready # <<>> /\ Head(batch.ready) = "coroutine"
TaskRuns == batch.ready # <<>> /\ Head(batch.ready) = "task"

\* A coroutine of the application becomes ready (a timer, a gateway event,
\* a start by the application): it goes behind what is ready already.
Wake ==
    /\ Coroutines(batch.ready) < MaxCoroutines
    /\ batch' = [batch EXCEPT !.ready = Append(@, "coroutine")]
    /\ last' = Call("wake", 0, "ok", NoTrack, 0)
    /\ sent' = <<>> /\ emitted' = <<>>
    /\ Constructed /\ UNCHANGED <<client, waiting, listeners, nodes, voice_handlers, wsUp, rx, inbox, playing, binding, scheduled, info>>

\* The running coroutine suspends or ends: the loop goes on to the next
\* entry.
Suspend ==
    /\ CoroutineRuns
    /\ batch' = [batch EXCEPT !.ready = Tail(@)]
    /\ last' = Call("suspend", 0, "ok", NoTrack, 0)
    /\ sent' = <<>> /\ emitted' = <<>>
    /\ Constructed /\ UNCHANGED <<client, waiting, listeners, nodes, voice_handlers, wsUp, rx, inbox, playing, binding, scheduled, info>>

\* add_to_queue called by the running coroutine; `batch` records the call.
\* The for loop calls create_task once per track with no suspension, so the
\* tasks of the call go on the ready queue one behind the other, behind
\* whatever was ready before them, and the coroutine runs on.
AddToQueueLogged(g, tracks, requester) ==
    /\ CoroutineRuns
    /\ AddToQueueStep(g, tracks, requester)
    /\ batch' =
          [batch EXCEPT
              !.ready = @ \o [i \in 1..(Len(scheduled') - Len(scheduled)) |-> "task"],
              !.calls = IF HasNode(nodes, g)
                        THEN Append(@, Batch(g, nodes[g].queue, tracks, requester))
                        ELSE @]

\* The task at the head of the ready queue runs; `batch` records the queue
\* the first task of a call finds and the frames the tasks of the call
\* send.
RunScheduledLogged ==
    /\ TaskRuns
    /\ RunScheduledStep
    /\ batch' =
          IF batch.cur.left > 0
          THEN [batch EXCEPT !.ready = Tail(@),
                             !.cur.frames = @ \o sent', !.cur.left = @ - 1]
          ELSE IF batch.calls = <<>> THEN [batch EXCEPT !.ready = Tail(@)]
          ELSE LET c == Head(batch.calls)
               IN  [ready |-> Tail(batch.ready),
                    calls |-> Tail(batch.calls),
                    cur |-> [c EXCEPT !.before = IF HasNode(nodes, c.guild)
                                                 THEN nodes[c.guild].queue ELSE <<>>,
                                      !.frames = sent',
                                      !.left = Len(c.tracks) - 1]]

\* The commands the running coroutine calls before it suspends.
CoroutineConnect == CoroutineRuns /\ Connect
CoroutineVoiceUpdate(g) == CoroutineRuns /\ VoiceUpdateFresh(g)
CoroutineVoiceUpdateResume(g) == CoroutineRuns /\ VoiceUpdateResume(g)
CoroutinePlay(g, track, requester) == CoroutineRuns /\ PlayObject(g, track, requester, FALSE)
CoroutineDestroy(g) == CoroutineRuns /\ Destroy(g)

\* The Track lists and the requesters add_to_queue is called with in this
\* specification: one track or two, a track twice, two objects of one
\* handle, a track that play enqueues too; a requester that is not the one
\* play is called with.
BatchLists ==
    {<<Obj("a")>>, <<Obj("a"), Obj("a")>>, <<Obj("a"), OtherObj>>, <<Obj("a"), Obj("b")>>}
BatchRequesters == {8}

\* add_to_queue and its tasks on the ready queue of the event loop, among
\* the coroutines of the application: on a session present or absent, with
\* the queue empty or not, the websocket open or not, with Track objects
\* that are or are not in the queue already.
NextBatch ==
    \/ Wake
    \/ Suspend
    \/ CoroutineConnect
    \/ \E g \in Guilds : CoroutineVoiceUpdate(g)
    \/ \E g \in Guilds : CoroutineVoiceUpdateResume(g)
    \/ \E g \in Guilds, t \in Tracks, r \in Requesters : CoroutinePlay(g, Obj(t), r)
    \/ \E g \in Guilds : CoroutineDestroy(g)
    \/ \E g \in Guilds, ts \in BatchLists, r \in BatchRequesters : AddToQueueLogged(g, ts, r)
    \/ RunScheduledLogged

SpecBatch == Init /\ [][NextBatch]_vars

\* What the event loop and the remote node do without being asked: a
\* suspended voice_update resumes, the receive loop reads and handles what
\* has arrived, a track that plays comes to its end.
Fairness ==
    /\ \A g \in Guilds : WF_vars(VoiceUpdateResume(g))
    /\ WF_vars(RxReceive) /\ WF_vars(RxDecoded) /\ WF_vars(RxReturn)
    /\ \A g \in Guilds : WF_vars(NodeTrackFinished(g))

\* The websocket closes while the remote node plays nothing and nothing it
\* sent waits to be read: no report of the remote node is lost.
CloseQuiet ==
    /\ inbox = <<>> /\ \A g \in Guilds : playing[g] = NoTrack
    /\ Close

\* A session that is bound once and stays: tracks are enqueued and skipped,
\* the remote node plays them and reports the end of every track it
\* starts; the websocket may close and be connected again.  No stop,
\* shuffle, repeat, destroy or rebinding.
NextLive ==
    \/ Connect
    \/ CloseQuiet
    \/ \E g \in Guilds : VoiceUpdateFresh(g)
    \/ \E g \in Guilds : VoiceUpdateResume(g)
    \/ \E g \in Guilds, t \in Tracks, r \in Requesters : Play(g, t, r, FALSE)
    \/ \E g \in Guilds : Skip(g)
    \/ RxReceive
    \/ RxDecoded
    \/ RxReturn
    \/ \E g \in Guilds : NodeTrackFinished(g)

SpecLive == Init /\ [][NextLive]_vars /\ Fairness

\* A wait is called: it returns or raises at once, or goes to sleep.
WaitCall(kind, g) ==
    LET outcome == Look(kind, nodes, g, TRUE)
    IN  /\ outcome = "sleep" => waiting[Wait(kind, g)] < MaxWaiting
        /\ waiting' = IF outcome = "sleep"
                      THEN [waiting EXCEPT ![Wait(kind, g)] = @ + 1] ELSE waiting
        /\ last' = Call(kind, g, outcome, NoTrack, 0)
        /\ sent' = <<>> /\ emitted' = <<>>
        /\ Constructed /\ UNCHANGED <<client, listeners, batch, nodes, voice_handlers, wsUp, rx, inbox, playing,
                       binding, scheduled, info>>

\* The sleep of one of the waits of the kind for g is over and it looks
\* again.
WaitPoll(kind, g) ==
    /\ waiting[Wait(kind, g)] > 0
    /\ LET outcome == Look(kind, nodes, g, FALSE)
       IN  /\ waiting' = IF outcome = "sleep" THEN waiting
                         ELSE [waiting EXCEPT ![Wait(kind, g)] = @ - 1]
           /\ last' = Call(kind, g, outcome, NoTrack, 1)
    /\ sent' = <<>> /\ emitted' = <<>>
    /\ Constructed /\ UNCHANGED <<client, listeners, batch, nodes, voice_handlers, wsUp, rx, inbox, playing,
                   binding, scheduled, info>>

\* The event loop wakes every sleeping wait and resumes a suspended
\* voice_update.
FairnessWait ==
    /\ \A g \in Guilds : WF_vars(VoiceUpdateResume(g))
    /\ \A kind \in WaitKinds, g \in Guilds : WF_vars(WaitPoll(kind, g))

\* The two waits against the binding and the destruction of the session.
NextWait ==
    \/ Connect
    \/ \E g \in Guilds : VoiceUpdateFresh(g)
    \/ \E g \in Guilds : VoiceUpdateResume(g)
    \/ \E g \in Guilds, t \in Tracks, r \in Requesters : Play(g, t, r, FALSE)
    \/ \E g \in Guilds : Destroy(g)
    \/ \E kind \in WaitKinds, g \in Guilds : WaitCall(kind, g)
    \/ \E kind \in WaitKinds, g \in Guilds : WaitPoll(kind, g)

SpecWait == Init /\ [][NextWait]_vars /\ FairnessWait

\* ---------------------------------------------------------------- claims
\* The last step was a call of op for guild g.
Called(op, g) == last.op = op /\ last.guild = g

\* C1: a non-forced play on an existing session appends the track to the
\* queue tail, and hands a play frame for that track to the control channel
\* if and only if the queue then holds exactly one track (the frame leaves
\* when the channel is open; the call ends in the send's error when not).
C1_PlayGate ==
    [][\A g \in Guilds :
          (Called("play", g)' /\ last'.val = 0 /\ HasNode(nodes, g)) =>
             LET q == nodes[g].queue
                 q2 == nodes'[g].queue
                 first == Len(q) = 0
             IN  /\ HasNode(nodes', g)
                 /\ Len(q2) = Len(q) + 1
                 /\ Objects(SubSeq(q2, 1, Len(q))) = Objects(q)
                 /\ q2[Len(q2)].track = last'.track
                 /\ first <=> Len(q2) = 1
                 /\ sent' = IF first /\ wsUp
                            THEN <<Frame("play", g, last'.track, 0)>> ELSE <<>>
                 /\ last'.outcome = IF first /\ ~wsUp THEN "SendError" ELSE "ok"]_vars

\* A play on an empty queue has sent its play frame.
C1_Witness ==
    \E g \in Guilds :
        /\ Called("play", g) /\ last.val = 0 /\ last.outcome = "ok"
        /\ HasNode(nodes, g) /\ Len(nodes[g].queue) = 1
        /\ sent = <<Frame("play", g, last.track, 0)>>

\* C2: under any interleaving of play, stop, skip and destroy with the
\* TrackEnd events the remote node delivers later, the track the remote
\* node is playing for a session is the head of that session's queue (so
\* the TrackEnd of a stopped track never dequeues a newer, playing head).
C2_PlayingIsHead ==
    \A g \in Guilds :
        playing[g] # NoTrack =>
            /\ HasNode(nodes, g)
            /\ nodes[g].queue # <<>>
            /\ nodes[g].queue[1].track = playing[g]

\* This step is WS.callback handling a TrackEndEvent for guild g, from the
\* answer of /decodetrack on.
HandlesTrackEnd(g) == rx.pc = "decode" /\ Called("TrackEndEvent", g)'

\* C3: a TrackEnd handled for an existing session with repeat off and a
\* queue of N >= 1 tracks removes the head and nothing else; for N >= 2
\* exactly one play frame is sent and it names the new head, for N = 1 the
\* queue is left empty and no frame is sent.
C3_TrackEndAdvance ==
    [][\A g \in Guilds :
          (/\ HandlesTrackEnd(g)
           /\ HasNode(nodes, g) /\ ~nodes[g].repeat /\ Len(nodes[g].queue) >= 1) =>
             LET q == nodes[g].queue
             IN  /\ nodes' = set_guild_node(nodes, g, [nodes[g] EXCEPT !.queue = Tail(q)])
                 /\ Len(nodes'[g].queue) = Len(q) - 1
                 /\ sent' = IF Len(q) >= 2
                            THEN <<Frame("play", g, q[2].track, 0)>> ELSE <<>>]_vars

\* A TrackEnd was handled with two tracks queued: one is left and its play
\* frame was sent.
C3_Witness ==
    \E g \in Guilds :
        /\ Called("TrackEndEvent", g) /\ HasNode(nodes, g)
        /\ ~nodes[g].repeat /\ Len(nodes[g].queue) = 1
        /\ sent = <<Frame("play", g, nodes[g].queue[1].track, 0)>>

\* C4: a TrackEnd handled for an existing session with repeat on and a
\* non-empty queue sends exactly one play frame, naming the head of the
\* queue whatever track the event reports, and leaves the queue as it was.
C4_RepeatReplaysHead ==
    [][\A g \in Guilds :
          (/\ HandlesTrackEnd(g)
           /\ HasNode(nodes, g) /\ nodes[g].repeat /\ Len(nodes[g].queue) >= 1) =>
             /\ sent' = <<Frame("play", g, nodes[g].queue[1].track, 0)>>
             /\ nodes' = nodes]_vars

\* The per-session commands of the command API, by the name `last` gives them.
SessionCommands ==
    {"play", "add_to_queue", "stop", "skip", "pause", "seek", "volume", "repeat",
     "filters", "shuffle", "destroy"}

\* C5: a per-session command (volume: with a value in range) addressed to
\* a session id absent from the registry ends with "Node not found"
\* (NodeError) and with no other exception, sends no frame and leaves the
\* registry as it was.
C5_AbsentIsNodeError ==
    [][\A g \in Guilds :
          (/\ last'.op \in SessionCommands /\ last'.guild = g
           /\ ~HasNode(nodes, g)
           /\ (last'.op = "volume" => (0 <= last'.val /\ last'.val <= 1000))) =>
             /\ last'.outcome = "NodeError"
             /\ sent' = <<>>
             /\ nodes' = nodes]_vars

\* C6: volume(g, v) with v < 0 or v > 1000 ends with VolumeError whether
\* or not the session exists, sends nothing and changes no session; with
\* 0 <= v <= 1000 on an existing session it sets that session's volume to
\* v (every key that refers to that Node object shows it), changes nothing
\* else, and sends exactly one volume frame carrying v
\* (no frame leaves a closed channel: the call then ends in the send's
\* error, the volume already set).
C6_Volume ==
    [][\A g \in Guilds :
          Called("volume", g)' =>
             LET v == last'.val
             IN  IF v < 0 \/ v > 1000
                 THEN /\ last'.outcome = "VolumeError"
                      /\ sent' = <<>>
                      /\ nodes' = nodes
                 ELSE HasNode(nodes, g) =>
                      /\ DOMAIN nodes' = DOMAIN nodes
                      /\ \A h \in DOMAIN nodes :
                            nodes'[h] = IF nodes[h].obj = nodes[g].obj
                                        THEN [nodes[g] EXCEPT !.volume = v]
                                        ELSE nodes[h]
                      /\ sent' = IF wsUp THEN <<Frame("volume", g, NoTrack, v)>> ELSE <<>>
                      /\ last'.outcome = IF wsUp THEN "ok" ELSE "SendError"]_vars

\* volume(g, 1000) has set the volume and sent its frame.
C6_Witness ==
    \E g \in Guilds :
        /\ Called("volume", g) /\ last.val = 1000 /\ last.outcome = "ok"
        /\ HasNode(nodes, g) /\ nodes[g].volume = 1000
        /\ sent = <<Frame("volume", g, NoTrack, 1000)>>

\* C7: destroy on an unknown session ends with NodeError, sends nothing and
\* changes nothing; destroy on a known session removes it before the frame
\* is sent: whether the destroy frame was sent or its send failed, the
\* session is absent when destroy ends, every other session is untouched,
\* and exactly the one destroy frame was sent if the channel is open.
C7_Destroy ==
    [][\A g \in Guilds :
          Called("destroy", g)' =>
             IF ~HasNode(nodes, g)
             THEN /\ last'.outcome = "NodeError"
                  /\ sent' = <<>>
                  /\ nodes' = nodes
             ELSE /\ DOMAIN nodes' = DOMAIN nodes \ {g}
                  /\ \A h \in DOMAIN nodes' : nodes'[h] = nodes[h]
                  /\ sent' = IF wsUp THEN <<Frame("destroy", g, NoTrack, 0)>> ELSE <<>>
                  /\ last'.outcome = IF wsUp THEN "ok" ELSE "SendError"]_vars

\* destroy has removed a known session and its send has failed.
C7_Witness ==
    \E g \in Guilds :
        /\ Called("destroy", g) /\ last.outcome = "SendError"
        /\ ~HasNode(nodes, g) /\ sent = <<>>

\* C8: voice_update with channel_id None sends no voiceUpdate frame and
\* leaves the session absent; on a session already absent it is a no-op
\* that ends without an error.
C8_NoChannelNoError ==
    \A g \in Guilds :
        (Called("voice_update", g) /\ last.val = NoChannel) =>
            /\ ~HasNode(nodes, g)
            /\ \A i \in 1..Len(sent) : sent[i].op # "voiceUpdate"
            /\ last.outcome # "NodeError"

\* C9: voice_update with a channel id sends exactly one voiceUpdate frame
\* (in its first half, which changes no session) and, when it completes,
\* the session is present as a fresh entry with connected = true, whether
\* it was absent or present before; the completing half sends nothing.
\* (On a closed channel the send raises: no frame, no session, no second
\* half.)
C9_VoiceUpdateBinds ==
    [][\A g \in Guilds :
          (Called("voice_update", g)' /\ last'.val # NoChannel) =>
             IF last'.outcome = "ok"
             THEN /\ binding[g] > 0 /\ binding'[g] = binding[g] - 1
                  /\ sent' = <<>>
                  /\ DOMAIN nodes' = DOMAIN nodes \cup {g}
                  /\ nodes'[g] = [obj |-> NewObject(nodes, g), guild_id |-> g,
                                  queue |-> <<>>, volume |-> 100,
                                  repeat |-> FALSE, is_connected |-> TRUE]
                  /\ \A h \in DOMAIN nodes \ {g} : nodes'[h] = nodes[h]
             ELSE /\ nodes' = nodes
                  /\ last'.outcome = IF wsUp THEN "suspended" ELSE "SendError"
                  /\ sent' = IF wsUp THEN <<Frame("voiceUpdate", g, NoTrack, 0)>> ELSE <<>>
                  /\ wsUp => binding'[g] = binding[g] + 1]_vars

\* voice_update has completed over a session that was present: the remote
\* node still plays the track of the entry it replaced.
C9_Witness ==
    \E g \in Guilds :
        /\ Called("voice_update", g) /\ last.val # NoChannel /\ last.outcome = "ok"
        /\ HasNode(nodes, g) /\ nodes[g].is_connected /\ nodes[g].queue = <<>>
        /\ playing[g] # NoTrack

\* C10: stop on an existing session with an empty queue ends with
\* NodeError, sends nothing and changes nothing; with a non-empty queue it
\* empties the queue, changes nothing else, and sends exactly one stop
\* frame; the queue is emptied before the send, so it is empty also when
\* the send fails.
C10_Stop ==
    [][\A g \in Guilds :
          (Called("stop", g)' /\ HasNode(nodes, g)) =>
             IF Len(nodes[g].queue) = 0
             THEN /\ last'.outcome = "NodeError"
                  /\ sent' = <<>>
                  /\ nodes' = nodes
             ELSE /\ DOMAIN nodes' = DOMAIN nodes
                  /\ \A h \in DOMAIN nodes :
                        nodes'[h] = IF h = g THEN [nodes[h] EXCEPT !.queue = <<>>]
                                    ELSE nodes[h]
                  /\ sent' = IF wsUp THEN <<Frame("stop", g, NoTrack, 0)>> ELSE <<>>
                  /\ last'.outcome = IF wsUp THEN "ok" ELSE "SendError"]_vars

\* stop has emptied a non-empty queue and sent its stop frame: the remote
\* node answered with the TrackEnd of the stopped track.
C10_Witness ==
    \E g \in Guilds :
        /\ Called("stop", g) /\ last.outcome = "ok"
        /\ HasNode(nodes, g) /\ nodes[g].queue = <<>>
        /\ sent = <<Frame("stop", g, NoTrack, 0)>>
        /\ inbox # <<>>

\* C11: skip on a present session leaves the registry as it was (queue,
\* volume and repeat flag of the session included): with an empty queue it
\* sends nothing, with tracks queued it hands exactly one stop frame to the
\* open websocket (none, and a send error, when the websocket is not open).
\* The head stays in the queue across the skip step.
C11_Skip ==
    [][\A g \in Guilds :
          (Called("skip", g)' /\ HasNode(nodes, g)) =>
             /\ nodes' = nodes
             /\ sent' = IF Len(nodes[g].queue) > 0 /\ wsUp
                        THEN <<Frame("stop", g, NoTrack, 0)>> ELSE <<>>
             /\ last'.outcome = IF Len(nodes[g].queue) > 0 /\ ~wsUp
                                THEN "SendError" ELSE "ok"]_vars

\* A skip sent its stop frame for a session whose queue still holds two tracks.
C11_Witness ==
    \E g \in Guilds :
        /\ Called("skip", g) /\ HasNode(nodes, g)
        /\ Len(nodes[g].queue) = 2
        /\ sent = <<Frame("stop", g, NoTrack, 0)>>

\* The number of places of the sequence q, from place 2 on, that hold x.
TailCount(q, x) == Cardinality({i \in 2..Len(q) : q[i] = x})

\* C12: shuffle on a present session with N >= 1 queued tracks keeps the
\* track at the head, keeps the length, leaves behind the head the same
\* tracks with the same multiplicities, changes nothing else of the
\* registry and sends no frame; on an empty queue it changes nothing.
C12_Shuffle ==
    [][\A g \in Guilds :
          (Called("shuffle", g)' /\ HasNode(nodes, g)) =>
             /\ sent' = <<>> /\ last'.outcome = "ok"
             /\ IF Len(nodes[g].queue) = 0 THEN nodes' = nodes
                ELSE LET q == nodes[g].queue
                         q2 == nodes'[g].queue
                     IN  /\ DOMAIN nodes' = DOMAIN nodes
                         /\ \A h \in DOMAIN nodes \ {g} : nodes'[h] = nodes[h]
                         /\ nodes'[g] = [nodes[g] EXCEPT !.queue = q2]
                         /\ Len(q2) = Len(q)
                         /\ q2[1] = q[1]
                         /\ \A i \in 2..Len(q) : TailCount(q2, q[i]) = TailCount(q, q[i])]_vars

\* A shuffle has run on a queue of three tracks whose two tracks behind the
\* head differ.
C12_Witness ==
    \E g \in Guilds :
        /\ Called("shuffle", g) /\ HasNode(nodes, g)
        /\ Len(nodes[g].queue) = 3
        /\ nodes[g].queue[2] # nodes[g].queue[3]
        /\ nodes[g].queue[1] # nodes[g].queue[2]

\* C13: no play, seek, volume, pause or filters frame is sent for a session
\* whose is_connected flag is false.  None of these commands changes the
\* flag, so a state shows the flag the session had when the frame was sent.
C13_NoFrameUnconnected ==
    \A i \in 1..Len(sent) :
        (/\ sent[i].op \in {"play", "seek", "volume", "pause", "filters"}
         /\ HasNode(nodes, sent[i].guildId))
        => nodes[sent[i].guildId].is_connected

\* The receive loop takes the frame f from the inbox in this step.
Receives(f) ==
    /\ wsUp /\ rx.pc = "idle" /\ inbox # <<>> /\ Head(inbox) = f
    /\ last'.op = "receive"

\* C14: every inbound event frame of type WebSocketClosedEvent has its
\* WebSocketClosedEvent published for its guild, with or without a "track"
\* field in the frame, and leaves the registry as it was: when the handler
\* has taken the frame it either goes on to the track lookup or has
\* published the event, and after the lookup it publishes the event.
C14_ClosedEventPublished ==
    [][/\ \A f \in NotifyFrames :
             (f.type = "WebSocketClosedEvent" /\ Receives(f)) =>
                /\ nodes' = nodes /\ sent' = <<>>
                /\ \/ rx'.pc = "decode" /\ rx'.frame = f
                   \/ \E i \in 1..Len(emitted') :
                         /\ emitted'[i].event = "WebSocketClosedEvent"
                         /\ emitted'[i].guild_id = f.guildId
       /\ \A g \in Guilds :
             (rx.pc = "decode" /\ Called("WebSocketClosedEvent", g)') =>
                /\ nodes' = nodes /\ sent' = <<>>
                /\ emitted' = <<Event("WebSocketClosedEvent", g, rx.frame.track)>>]_vars

\* C15: a command addressed to an absent session, with a listener for
\* "ErrorEvent" registered, ends without raising and publishes an
\* ErrorEvent for the guild; with no such listener it ends by raising.
C15_RaiseOrEmit ==
    [][\A g \in Guilds :
          (/\ last'.op \in SessionCommands /\ last'.guild = g
           /\ ~HasNode(nodes, g)
           /\ (last'.op = "volume" => (VolumeMin <= last'.val /\ last'.val <= VolumeMax))) =>
             IF "ErrorEvent" \in listeners
             THEN /\ last'.outcome = "ok"
                  /\ \E i \in 1..Len(emitted') :
                        emitted'[i].event = "ErrorEvent" /\ emitted'[i].guild_id = g
             ELSE last'.outcome # "ok"]_vars

\* C16: a session id absent from the registry becomes present only in the
\* step that completes a voice_update with a channel id, which writes a
\* fresh connected Node: no play, stop, volume, repeat, shuffle, no task of
\* add_to_queue and no handler of the receive loop, however they interleave
\* with destroy, puts a destroyed session back.
C16_OnlyVoiceUpdateCreates ==
    [][\A g \in Guilds :
          (~HasNode(nodes, g) /\ HasNode(nodes', g)) =>
             /\ binding[g] > 0
             /\ Called("voice_update", g)' /\ last'.val # NoChannel
             /\ nodes'[g] = Node(NewObject(nodes, g), g, TRUE)]_vars

\* The sequence s is the beginning of the sequence t.
IsPrefix(s, t) == Len(s) <= Len(t) /\ \A i \in 1..Len(s) : s[i] = t[i]

\* The types of the event frames WS.callback handles after the track lookup.
HandledTypes ==
    {"TrackStartEvent", "TrackEndEvent", "TrackExceptionEvent", "TrackStuckEvent",
     "WebSocketClosedEvent"}

\* C17: the receive loop handles the inbound frames one at a time, in the
\* order of their arrival.  A frame is taken only when no handler is under
\* way, and it is the oldest one waiting; while a handler is suspended (in
\* the track lookup or in the send of a forced play frame) no frame is
\* taken, the frames that arrive queue up behind, and every registry
\* change, published event and outbound frame of the loop belongs to the
\* frame under way.
C17_OneAtATime ==
    [][/\ last'.op = "receive" =>
             /\ rx.pc = "idle" /\ inbox # <<>> /\ inbox' = Tail(inbox)
             /\ last'.track = Head(inbox).track /\ last'.guild = Head(inbox).guildId
             /\ nodes' = nodes /\ sent' = <<>>
             /\ rx'.pc \in {"idle", "decode"}
             /\ rx'.pc = "decode" => rx'.frame = Head(inbox)
       /\ rx.pc # "idle" =>
             /\ IsPrefix(inbox, inbox')
             /\ rx'.pc = "decode" => rx' = rx
       /\ last'.op \in HandledTypes =>
             /\ rx.pc = "decode"
             /\ last'.op = rx.frame.type /\ last'.guild = rx.frame.guildId
             /\ last'.track = rx.frame.track
             /\ \A i \in 1..Len(emitted') :
                   emitted'[i] = Event(rx.frame.type, rx.frame.guildId, rx.frame.track)
             /\ \A i \in 1..Len(sent') : sent'[i].guildId = rx.frame.guildId
       /\ last'.op = "callback_return" => (rx.pc = "sending" /\ rx'.pc = "idle")]_vars

\* The handler of a TrackEndEvent is suspended in the send of its forced
\* play frame while the next inbound frame waits.
C17_Witness ==
    /\ rx.pc = "sending"
    /\ last.op = "TrackEndEvent" /\ Len(sent) = 1
    /\ inbox # <<>>

\* A voiceUpdate frame for guild g is among the frames of the step.
SendsVoiceUpdate(g) ==
    \E i \in 1..Len(sent') : sent'[i].op = "voiceUpdate" /\ sent'[i].guildId = g

\* A raw_voice_state_update of another user, and a raw_voice_server_update
\* for a guild with no ConnectionInfo stored, change nothing and send
\* nothing; a ConnectionInfo comes to be stored only by a
\* raw_voice_state_update of the client's own user with a channel id.
IgnoredVoiceUpdates ==
    \A g \in Guilds :
        /\ (Called("raw_voice_state_update", g)' /\ last'.user # SelfUser) =>
              /\ nodes' = nodes /\ voice_handlers' = voice_handlers
              /\ binding' = binding /\ sent' = <<>> /\ last'.outcome = "ok"
        /\ (Called("raw_voice_server_update", g)' /\ ~HasNode(voice_handlers, g)) =>
              /\ nodes' = nodes /\ voice_handlers' = voice_handlers
              /\ binding' = binding /\ sent' = <<>> /\ last'.outcome = "ok"
        /\ (~HasNode(voice_handlers, g) /\ HasNode(voice_handlers', g)) =>
              /\ Called("raw_voice_state_update", g)'
              /\ last'.user = SelfUser /\ last'.val # NoChannel

\* C18 (as stated): a voice-state update of another user changes nothing, a
\* voice-server update with no ConnectionInfo stored changes nothing, and a
\* voiceUpdate frame is sent for a guild only when a voice-state update of
\* the client's own user with a channel id has been received for it (its
\* ConnectionInfo is stored).
C18_VoiceGate ==
    [][/\ IgnoredVoiceUpdates
       /\ \A g \in Guilds : SendsVoiceUpdate(g) => HasNode(voice_handlers, g)]_vars

\* C18 (amended): the same for the two kinds of ignored update; a
\* voiceUpdate frame is sent either by a voice-server update for a guild
\* whose ConnectionInfo is stored, or by a direct voice_update call with a
\* channel id, which needs no voice-state update before it.
C18_VoiceGateAmended ==
    [][/\ IgnoredVoiceUpdates
       /\ \A g \in Guilds :
             SendsVoiceUpdate(g) =>
                /\ wsUp /\ sent' = <<Frame("voiceUpdate", g, NoTrack, 0)>>
                /\ \/ Called("raw_voice_server_update", g)' /\ HasNode(voice_handlers, g)
                   \/ Called("voice_update", g)' /\ last'.val # NoChannel]_vars

\* A voice-state update of another user, with a channel id, has been
\* received for a guild that has a session and no ConnectionInfo stored.
C18_Witness ==
    \E g \in Guilds :
        /\ Called("raw_voice_state_update", g)
        /\ last.user # SelfUser /\ last.val # NoChannel
        /\ HasNode(nodes, g) /\ ~HasNode(voice_handlers, g)

\* C19: no ConnectionInfo of a guild remains once its binding has
\* completed (the voice_update that was sending the voiceUpdate frame has
\* written the session), nor once a voice-state update of the client's own
\* user with no channel id has destroyed its session.
C19_ConnectionInfoTransient ==
    [][\A g \in Guilds :
          /\ (binding[g] > 0 /\ Called("voice_update", g)' /\ HasNode(nodes', g)) =>
                ~HasNode(voice_handlers', g)
          /\ (/\ Called("raw_voice_state_update", g)'
              /\ last'.user = SelfUser /\ last'.val = NoChannel
              /\ HasNode(nodes, g)) =>
                ~HasNode(voice_handlers', g)]_vars

\* The queue places add_to_queue(tracks, requester) is to leave, in order.
Enqueued(tracks, requester) ==
    [i \in 1..Len(tracks) |-> Track(tracks[i].id, tracks[i].track, requester)]

\* The queue q once the requester is attached to the tracks: a place of q
\* that refers to one of them shows that requester.
Attached(q, tracks, requester) ==
    [i \in 1..Len(q) |->
        IF \E j \in 1..Len(tracks) : tracks[j].id = q[i].id
        THEN [q[i] EXCEPT !.requester = requester] ELSE q[i]]

\* C20: add_to_queue with N >= 1 tracks on a present session creates N
\* tasks, one per track in the order given, changes no session and sends
\* nothing itself; when the last of the tasks has run, the session still
\* present, the queue is what the call found followed by the N tracks
\* (the same Track objects in the same places, each of the N with the
\* requester of the call, also where the queue held it already), and the
\* tasks together have sent exactly one play frame, naming the first
\* track, if the call found the queue empty (and the websocket is open),
\* and none otherwise.  On an absent session add_to_queue creates no task
\* and ends with NodeError.
C20_AddToQueue ==
    [][\A g \in Guilds :
          /\ (Called("add_to_queue", g)' /\ HasNode(nodes, g)) =>
                /\ last'.outcome = "ok" /\ nodes' = nodes /\ sent' = <<>>
                /\ Len(scheduled') = Len(scheduled) + last'.val
                /\ \A i \in 1..last'.val :
                      /\ scheduled'[Len(scheduled) + i].guild = g
                      /\ scheduled'[Len(scheduled) + i].track =
                            batch'.calls[Len(batch'.calls)].tracks[i]
          /\ (Called("add_to_queue", g)' /\ ~HasNode(nodes, g)) =>
                /\ last'.outcome = "NodeError" /\ scheduled' = scheduled
                /\ nodes' = nodes /\ sent' = <<>>
          /\ (Called("play_task", g)' /\ batch'.cur.left = 0 /\ HasNode(nodes', g)) =>
                LET c == batch'.cur
                IN  /\ c.guild = g
                    /\ Objects(nodes'[g].queue) = Objects(c.found) \o c.tracks
                    /\ nodes'[g].queue =
                          Attached(c.found, c.tracks, c.requester)
                          \o Enqueued(c.tracks, c.requester)
                    /\ c.frames =
                          IF c.found = <<>> /\ wsUp
                          THEN <<Frame("play", g, c.tracks[1].track, 0)>> ELSE <<>>]_vars

\* C20 (amended): add_to_queue with N >= 1 tracks on a present session
\* creates N tasks, one per track in the order given, changes no session
\* and sends nothing itself; the tasks run later, one after the other:
\* from the first of them to the last, no other step changes a session or
\* sends a frame.
\* When the last of them has run, the session still present, the queue is
\* what the first of them found (what the call found and whatever was
\* enqueued or removed between the call and its tasks) followed by the N
\* tracks, each of the N with the requester of the call, and the tasks
\* together have sent exactly one play frame, naming the first track, if
\* the first of them found the queue empty (and the websocket is open),
\* and none otherwise.  On an absent session add_to_queue creates no task
\* and ends with NodeError.
C20_AddToQueueAmended ==
    [][\A g \in Guilds :
          /\ (Called("add_to_queue", g)' /\ HasNode(nodes, g)) =>
                /\ last'.outcome = "ok" /\ nodes' = nodes /\ sent' = <<>>
                /\ Len(scheduled') = Len(scheduled) + last'.val
                /\ \A i \in 1..last'.val :
                      /\ scheduled'[Len(scheduled) + i].guild = g
                      /\ scheduled'[Len(scheduled) + i].track =
                            batch'.calls[Len(batch'.calls)].tracks[i]
          /\ (Called("add_to_queue", g)' /\ ~HasNode(nodes, g)) =>
                /\ last'.outcome = "NodeError" /\ scheduled' = scheduled
                /\ nodes' = nodes /\ sent' = <<>>
          /\ (Called("play_task", g)' /\ batch'.cur.left = 0 /\ HasNode(nodes', g)) =>
                LET c == batch'.cur
                IN  /\ c.guild = g
                    /\ Objects(nodes'[g].queue) = Objects(c.before) \o c.tracks
                    /\ nodes'[g].queue =
                          Attached(c.before, c.tracks, c.requester)
                          \o Enqueued(c.tracks, c.requester)
                    /\ c.frames =
                          IF c.before = <<>> /\ wsUp
                          THEN <<Frame("play", g, c.tracks[1].track, 0)>> ELSE <<>>
          /\ (batch.cur.left > 0 /\ batch.cur.guild = g) =>
                \/ Called("play_task", g)' /\ batch'.cur.left = batch.cur.left - 1
                \/ nodes' = nodes /\ sent' = <<>> /\ batch'.cur = batch.cur]_vars

\* The task of an add_to_queue call that found the queue empty has run
\* behind a play made after the call: the queue holds the track of that
\* play and then the track of the call, and the task has sent no frame.
C20_Witness ==
    \E g \in Guilds :
        /\ Called("play_task", g) /\ batch.cur.left = 0 /\ HasNode(nodes, g)
        /\ batch.cur.guild = g
        /\ batch.cur.found = <<>> /\ Len(batch.cur.before) = 1
        /\ Len(nodes[g].queue) = 2 /\ batch.cur.frames = <<>>

\* C21: the receive loop leaves the registry as it was (every session's
\* queue, volume, repeat flag, and which sessions there are) and sends no
\* frame when it handles a frame that is not a TrackEndEvent (stats,
\* playerUpdate, an unknown op, an event frame without a track, and after
\* the track lookup a TrackStartEvent, TrackExceptionEvent, TrackStuckEvent
\* or WebSocketClosedEvent), and when it handles a TrackEndEvent for a
\* session that is absent or has an empty queue.
C21_QuietFrames ==
    [][/\ last'.op = "receive" => (nodes' = nodes /\ sent' = <<>>)
       /\ (/\ rx.pc = "decode" /\ last'.op \in HandledTypes
           /\ \/ rx.frame.type # "TrackEndEvent"
              \/ ~HasNode(nodes, rx.frame.guildId)
              \/ Len(nodes[rx.frame.guildId].queue) = 0) =>
             /\ nodes' = nodes /\ sent' = <<>>
             /\ last'.outcome = "ok" /\ rx'.pc = "idle"]_vars

\* A TrackStuckEvent has been handled for a session with tracks queued.
C21_Witness ==
    \E g \in Guilds :
        /\ Called("TrackStuckEvent", g) /\ HasNode(nodes, g)
        /\ Len(nodes[g].queue) > 0
        /\ emitted = <<Event("TrackStuckEvent", g, last.track)>>

\* A play frame for track t of guild g is among the frames of the state's step.
PlaySent(g, t) ==
    \E i \in 1..Len(sent) : sent[i] = Frame("play", g, t, 0)

\* The step before the state was a play without start that put t in the
\* queue of g.
PlayEnqueued(g, t) ==
    /\ Called("play", g) /\ last.val = 0 /\ last.track = t
    /\ last.outcome # "NodeError"

\* Play frames follow the queue: a queue changes only by a track appended
\* at its end or its head taken off, and a play frame names the track at the
\* head of the queue its step leaves.
PlayOrder ==
    [][\A g \in Guilds :
          /\ (HasNode(nodes, g) /\ HasNode(nodes', g)) =>
                \/ nodes'[g].queue = nodes[g].queue
                \/ nodes[g].queue # <<>> /\ nodes'[g].queue = Tail(nodes[g].queue)
                \/ /\ Len(nodes'[g].queue) = Len(nodes[g].queue) + 1
                   /\ IsPrefix(Objects(nodes[g].queue), Objects(nodes'[g].queue))
          /\ \A i \in 1..Len(sent') :
                (sent'[i].op = "play" /\ sent'[i].guildId = g) =>
                   /\ HasNode(nodes', g) /\ nodes'[g].queue # <<>>
                   /\ sent'[i].track = nodes'[g].queue[1].track
                   /\ nodes'[g].queue # nodes[g].queue]_vars

\* A track that play enqueues while the websocket is open has a play frame
\* sent for it, then or later.
PlayEventually ==
    \A g \in Guilds, t \in Tracks :
        []((PlayEnqueued(g, t) /\ wsUp) => <>PlaySent(g, t))

\* C22: on a session that stays present, with repeat off and no stop,
\* shuffle, destroy or rebinding, play frames are sent in the order the
\* tracks were put in the queue, and with the remote node reporting the end
\* of every track it starts and the event loop running every task that can
\* run, every track play enqueues (the websocket open) has a play frame
\* sent for it in the end: the queue does not stall while it holds tracks.
C22_PlayInOrderEventually == PlayOrder /\ PlayEventually

\* A wait of the kind for guild g is asleep.
Asleep(kind, g) == waiting[Wait(kind, g)] > 0

\* The step before the state was a wait of the kind for guild g that
\* returned after a sleep.
Returned(kind, g) == Called(kind, g) /\ last.val = 1 /\ last.outcome = "ok"

\* The steps of the waits: wait_for_connection returns only with the
\* session present; wait_for_remove_connection raises NodeError when
\* called with the session absent and otherwise returns only with the
\* session absent; no step of a wait changes the registry or sends a frame.
WaitSafety ==
    [][\A g \in Guilds :
          /\ Called("wait_for_connection", g)' =>
                /\ nodes' = nodes /\ sent' = <<>>
                /\ last'.outcome \in {"ok", "sleep"}
                /\ last'.outcome = "ok" <=> HasNode(nodes', g)
          /\ Called("wait_for_remove_connection", g)' =>
                /\ nodes' = nodes /\ sent' = <<>>
                /\ (last'.val = 0 /\ ~HasNode(nodes, g)) => last'.outcome = "NodeError"
                /\ last'.outcome = "NodeError" => (last'.val = 0 /\ ~HasNode(nodes, g))
                /\ last'.outcome = "ok" => (last'.val = 1 /\ ~HasNode(nodes', g))
                /\ last'.outcome = "sleep" <=> HasNode(nodes', g)]_vars

\* While waits are asleep and the session has come to be, and stays, the
\* way they wait for, one of them after the other returns.
WaitLiveness ==
    \A g \in Guilds :
        /\ (<>[]HasNode(nodes, g)) =>
              [](Asleep("wait_for_connection", g) => <>Returned("wait_for_connection", g))
        /\ (<>[]~HasNode(nodes, g)) =>
              [](Asleep("wait_for_remove_connection", g)
                    => <>Returned("wait_for_remove_connection", g))

\* C23: wait_for_connection(g) returns only in a state where the session
\* is present and, the event loop waking it, returns in the end once the
\* session is present for good; wait_for_remove_connection(g) ends with
\* NodeError if the session is absent when it is called, otherwise returns
\* only in a state where the session is absent, and returns in the end
\* once the session is absent for good; neither changes the registry nor
\* sends a frame.
C23_Waits == WaitSafety /\ WaitLiveness

\* A wait_for_connection that had gone to sleep with the session absent
\* has returned after a later look, the session present.
C23_Witness ==
    \E g \in Guilds :
        /\ Called("wait_for_connection", g) /\ last.val = 1 /\ last.outcome = "ok"
        /\ HasNode(nodes, g) /\ ~Asleep("wait_for_connection", g)

====
